---- MODULE Spec2Model ----
(***************************************************************************)
(* Model of mm.c: an explicit-free-list allocator with boundary tags and   *)
(* first-fit placement over a heap obtained from mem_sbrk.                 *)
(*                                                                         *)
(* Memory is modelled word by word (4-byte words, byte addresses that are  *)
(* multiples of 4).  The function mem holds only the words whose value is  *)
(* not 0; every other word of the arena reads 0, which is what the arena   *)
(* of the heap provider holds before the allocator writes to it.           *)
(* A pointer slot (PRED, SUCC) is pointer-sized: two words, the low one    *)
(* holding the address and the high one 0.                                 *)
(* size_t arithmetic wraps modulo SizeMod.                                 *)
(***************************************************************************)
EXTENDS Integers, Sequences, FiniteSets, TLC

VARIABLES mem,          \* the arena: word address -> non-zero word value
          heap_listp,   \* static char *heap_listp
          free_listp,   \* static char *free_listp
          mem_brk,      \* the heap provider's break
          mem_max_addr, \* the heap provider's limit
          pc,           \* "uninit", "ready", "failed" (mm_init returned -1), "crashed"
          live,         \* pointers handed out and not yet given back
          last,         \* the operation that just ran: its arguments and result
          pre,          \* the block layout before the last successful mm_malloc
          script,       \* the caller's warm-up calls still to run
          nops          \* number of calls made after the warm-up

vars == <<mem, heap_listp, free_listp, mem_brk, mem_max_addr, pc, live, last, pre,
          script, nops>>

(***************************************************************************)
(* Constants and macros (mm.c lines 15-51)                                 *)
(***************************************************************************)
WSIZE == 4
DSIZE == 8
CHUNKSIZE == 4096
MINIMUM == 24
ALIGNMENT == 8
NULL == 0

\* size_t: unsigned arithmetic wraps modulo SizeMod
SizeMod == 2^30
Wrap(x) == x % SizeMod

\* the value mem_sbrk returns on failure, (void *)-1
SBRK_FAIL == 0 - 1

\* first address of the arena, double-word aligned
HeapBase == 2 * DSIZE

\* bounds of the exploration
MaxOps == 2
MaxHeap == 8248

MAX(x, y) == IF x > y THEN x ELSE y

\* size | alloc, for alloc in {0, 1}
PACK(size, alloc) == IF size % 2 = 1 THEN size ELSE size + alloc

GET(m, p) == IF p \in DOMAIN m THEN m[p] ELSE 0

PUT(m, p, val) ==
    IF val = 0
    THEN [a \in DOMAIN m \ {p} |-> m[a]]
    ELSE [a \in DOMAIN m \cup {p} |-> IF a = p THEN val ELSE m[a]]

GET_SIZE(m, p) == GET(m, p) - (GET(m, p) % 8)
GET_ALLOC(m, p) == GET(m, p) % 2

HDRP(bp) == bp - WSIZE
FTRP(m, bp) == bp + GET_SIZE(m, HDRP(bp)) - DSIZE

NEXT_BLKP(m, bp) == bp + GET_SIZE(m, bp - WSIZE)
PREV_BLKP(m, bp) == bp - GET_SIZE(m, bp - DSIZE)

\* v, named x in F: v is computed once, however often F uses it
Bind(v, F(_)) == CHOOSE r \in {F(x) : x \in {v}} : TRUE

\* pointer-sized slots: the address is in the low word
SUCC(m, bp) == GET(m, bp + DSIZE)
PRED(m, bp) == GET(m, bp)
SET_SUCC(m, bp, val) ==
    Bind(PUT(m, bp + DSIZE, val), LAMBDA m1 : PUT(m1, bp + DSIZE + WSIZE, 0))
SET_PRED(m, bp, val) ==
    Bind(PUT(m, bp, val), LAMBDA m1 : PUT(m1, bp + WSIZE, 0))

ALIGN(size) == Wrap(size + (ALIGNMENT - 1)) - (Wrap(size + (ALIGNMENT - 1)) % 8)

\* asize = MAX(ALIGN(size) + DSIZE, MINIMUM), in size_t arithmetic
AdjustedSize(size) == MAX(Wrap(ALIGN(size) + DSIZE), MINIMUM)

(***************************************************************************)
(* The allocator state handed from one helper to the next:                 *)
(*   [mem, heap_listp, free_listp, brk, max, crash]                        *)
(* crash is set when the operation cannot return (a store through an       *)
(* invalid pointer, a walk that never ends).                               *)
(***************************************************************************)

\* the heap provider: the old break, or (void *)-1 when the limit is reached
mem_sbrk(s, incr) ==
    IF incr < 0 \/ s.brk + incr > s.max
    THEN [s |-> s, r |-> SBRK_FAIL]
    ELSE [s |-> [s EXCEPT !.brk = s.brk + incr], r |-> s.brk]

\* PUT(HDRP(bp), val); PUT(FTRP(bp), val);
PutHdrFtr(m, bp, val) ==
    Bind(PUT(m, HDRP(bp), val), LAMBDA m1 : PUT(m1, FTRP(m1, bp), val))

fcons(s, bp) ==
    Bind(SET_SUCC(s.mem, bp, s.free_listp), LAMBDA m1 :
    Bind(SET_PRED(m1, s.free_listp, bp), LAMBDA m2 :
    [s EXCEPT !.mem = SET_PRED(m2, bp, NULL), !.free_listp = bp]))

\* fremove that leaves free_listp alone when it removes the head
fremove_nohead(s, bp) ==
    Bind(IF PRED(s.mem, bp) # NULL
         THEN [s EXCEPT !.mem = SET_SUCC(s.mem, PRED(s.mem, bp), SUCC(s.mem, bp))]
         ELSE s,
         LAMBDA s1 :
    [s1 EXCEPT !.mem = SET_PRED(s1.mem, SUCC(s1.mem, bp), PRED(s1.mem, bp))])

\* fremove without its last statement, PRED(SUCC(bp)) = PRED(bp)
fremove_nopred(s, bp) ==
    IF PRED(s.mem, bp) # NULL
    THEN [s EXCEPT !.mem = SET_SUCC(s.mem, PRED(s.mem, bp), SUCC(s.mem, bp))]
    ELSE [s EXCEPT !.free_listp = SUCC(s.mem, bp)]

fremove(s, bp) ==
    Bind(IF PRED(s.mem, bp) # NULL
         THEN [s EXCEPT !.mem = SET_SUCC(s.mem, PRED(s.mem, bp), SUCC(s.mem, bp))]
         ELSE [s EXCEPT !.free_listp = SUCC(s.mem, bp)],
         LAMBDA s1 :
    [s1 EXCEPT !.mem = SET_PRED(s1.mem, SUCC(s1.mem, bp), PRED(s1.mem, bp))])

\* coalesce that takes case 1 whatever the neighbours are
coalesce_nomerge(s, bp) == [s |-> fcons(s, bp), r |-> bp]

coalesce(s, bp) ==
    LET m == s.mem
        prev_alloc == GET_ALLOC(m, FTRP(m, PREV_BLKP(m, bp))) # 0
                      \/ PREV_BLKP(m, bp) = bp
        next_alloc == GET_ALLOC(m, HDRP(NEXT_BLKP(m, bp))) # 0
        size == GET_SIZE(m, HDRP(bp))
    IN  IF prev_alloc /\ next_alloc                          \* Case 1
        THEN [s |-> fcons(s, bp), r |-> bp]
        ELSE IF prev_alloc /\ ~next_alloc                    \* Case 2
        THEN LET size2 == size + GET_SIZE(m, HDRP(NEXT_BLKP(m, bp)))
             IN  Bind(fremove(s, NEXT_BLKP(m, bp)), LAMBDA s1 :
                 Bind([s1 EXCEPT !.mem = PutHdrFtr(s1.mem, bp, PACK(size2, 0))], LAMBDA s2 :
                 [s |-> fcons(s2, bp), r |-> bp]))
        ELSE IF ~prev_alloc /\ next_alloc                    \* Case 3
        THEN LET size3 == size + GET_SIZE(m, HDRP(PREV_BLKP(m, bp)))
                 bp3 == PREV_BLKP(m, bp)
             IN  Bind(fremove(s, bp3), LAMBDA s1 :
                 Bind([s1 EXCEPT !.mem = PutHdrFtr(s1.mem, bp3, PACK(size3, 0))], LAMBDA s2 :
                 [s |-> fcons(s2, bp3), r |-> bp3]))
        ELSE LET size4 == size + GET_SIZE(m, HDRP(PREV_BLKP(m, bp)))     \* Case 4
                               + GET_SIZE(m, HDRP(NEXT_BLKP(m, bp)))
             IN  Bind(fremove(s, PREV_BLKP(m, bp)), LAMBDA s1 :
                 Bind(fremove(s1, NEXT_BLKP(s1.mem, bp)), LAMBDA s2 :
                 Bind(PREV_BLKP(s2.mem, bp), LAMBDA bp4 :
                 Bind([s2 EXCEPT !.mem = PutHdrFtr(s2.mem, bp4, PACK(size4, 0))], LAMBDA s3 :
                 [s |-> fcons(s3, bp4), r |-> bp4]))))

\* extend_heap that writes the new header before it looks at what
\* mem_sbrk returned
extend_heap_early(s, words) ==
    LET size0 == IF words % 2 = 1 THEN Wrap((words + 1) * WSIZE) ELSE Wrap(words * WSIZE)
        size == IF size0 < MINIMUM THEN MINIMUM ELSE size0
    IN  Bind(mem_sbrk(s, size), LAMBDA sb :
        IF sb.r = SBRK_FAIL
        THEN [s |-> [s EXCEPT !.mem = PUT(s.mem, HDRP(s.brk), PACK(size, 0))], r |-> NULL]
        ELSE Bind(PutHdrFtr(sb.s.mem, sb.r, PACK(size, 0)), LAMBDA m1 :
             Bind(PUT(m1, HDRP(NEXT_BLKP(m1, sb.r)), PACK(0, 1)), LAMBDA m2 :
             Bind([sb.s EXCEPT !.mem = m2], LAMBDA s1 :
             coalesce(s1, sb.r)))))

\* extend_heap with the parity test the wrong way round
extend_heap_odd(s, words) ==
    LET size0 == IF words % 2 = 1 THEN Wrap(words * WSIZE) ELSE Wrap((words + 1) * WSIZE)
        size == IF size0 < MINIMUM THEN MINIMUM ELSE size0
    IN  Bind(mem_sbrk(s, size), LAMBDA sb :
        IF sb.r = SBRK_FAIL
        THEN [s |-> s, r |-> NULL]
        ELSE Bind(PutHdrFtr(sb.s.mem, sb.r, PACK(size, 0)), LAMBDA m1 :
             Bind(PUT(m1, HDRP(NEXT_BLKP(m1, sb.r)), PACK(0, 1)), LAMBDA m2 :
             Bind([sb.s EXCEPT !.mem = m2], LAMBDA s1 :
             coalesce(s1, sb.r)))))

extend_heap(s, words) ==
    LET size0 == IF words % 2 = 1 THEN Wrap((words + 1) * WSIZE) ELSE Wrap(words * WSIZE)
        size == IF size0 < MINIMUM THEN MINIMUM ELSE size0
    IN  Bind(mem_sbrk(s, size), LAMBDA sb :
        IF sb.r = SBRK_FAIL
        THEN [s |-> s, r |-> NULL]
        ELSE Bind(PutHdrFtr(sb.s.mem, sb.r, PACK(size, 0)), LAMBDA m1 :
             Bind(PUT(m1, HDRP(NEXT_BLKP(m1, sb.r)), PACK(0, 1)), LAMBDA m2 :
             Bind([sb.s EXCEPT !.mem = m2], LAMBDA s1 :
             coalesce(s1, sb.r)))))

\* place that marks the block allocated and leaves it on the free list
place_keep(s, bp, asize) ==
    [s EXCEPT !.mem = PutHdrFtr(s.mem, bp, PACK(GET_SIZE(s.mem, HDRP(bp)), 1))]

place(s, bp, asize) ==
    LET csize == GET_SIZE(s.mem, HDRP(bp))
    IN  IF Wrap(csize - asize) >= MINIMUM
        THEN Bind([s EXCEPT !.mem = PutHdrFtr(s.mem, bp, PACK(asize, 1))], LAMBDA s1 :
             Bind(fremove(s1, bp), LAMBDA s2 :
             Bind(NEXT_BLKP(s2.mem, bp), LAMBDA nbp :
             Bind([s2 EXCEPT !.mem = PutHdrFtr(s2.mem, nbp, PACK(Wrap(csize - asize), 0))],
                  LAMBDA s3 :
             coalesce(s3, nbp).s))))
        ELSE Bind([s EXCEPT !.mem = PutHdrFtr(s.mem, bp, PACK(csize, 1))], LAMBDA s1 :
             fremove(s1, bp))

\* the walk of find_fit; HANG when it comes back to a block it has left,
\* which is where the loop of the code never ends
HANG == 0 - 2

RECURSIVE find_fit_from(_, _, _, _)
find_fit_from(m, asize, bp, seen) ==
    IF GET_ALLOC(m, HDRP(bp)) # 0 THEN NULL
    ELSE IF asize <= GET_SIZE(m, HDRP(bp)) THEN bp
    ELSE IF bp \in seen THEN HANG
    ELSE Bind(SUCC(m, bp), LAMBDA nx :
         Bind(seen \cup {bp}, LAMBDA sn : find_fit_from(m, asize, nx, sn)))

\* find_fit that starts at the successor of the head
find_fit_second(s, asize) ==
    IF GET_ALLOC(s.mem, HDRP(s.free_listp)) # 0 THEN NULL
    ELSE find_fit_from(s.mem, asize, SUCC(s.mem, s.free_listp), {s.free_listp})

\* find_fit that takes the head of the list without comparing sizes
find_fit_anysize(s, asize) ==
    IF GET_ALLOC(s.mem, HDRP(s.free_listp)) # 0 THEN NULL ELSE s.free_listp

find_fit(s, asize) == find_fit_from(s.mem, asize, s.free_listp, {})

mm_malloc(s, size) ==
    IF size <= 0 THEN [s |-> s, r |-> NULL]
    ELSE Bind(AdjustedSize(size), LAMBDA asize :
         Bind(find_fit(s, asize), LAMBDA bp :
         IF bp = HANG THEN [s |-> [s EXCEPT !.crash = TRUE], r |-> NULL]
         ELSE IF bp # NULL THEN [s |-> place(s, bp, asize), r |-> bp]
         ELSE Bind(MAX(asize, CHUNKSIZE), LAMBDA extendsize :
              Bind(extend_heap(s, extendsize \div WSIZE), LAMBDA e :
              IF e.r = NULL THEN [s |-> e.s, r |-> NULL]
              ELSE [s |-> place(e.s, e.r, asize), r |-> e.r]))))

\* mm_free that rewrites the header and not the footer
mm_free_nofooter(s, bp) ==
    IF bp = 0 THEN s
    ELSE LET size == GET_SIZE(s.mem, HDRP(bp))
         IN  Bind([s EXCEPT !.mem = PUT(s.mem, HDRP(bp), PACK(size, 0))], LAMBDA s1 :
             coalesce(s1, bp).s)

\* mm_free that puts the block on the list without coalescing
mm_free_nocoalesce(s, bp) ==
    IF bp = 0 THEN s
    ELSE LET size == GET_SIZE(s.mem, HDRP(bp))
         IN  Bind([s EXCEPT !.mem = PutHdrFtr(s.mem, bp, PACK(size, 0))], LAMBDA s1 :
             fcons(s1, bp))

mm_free(s, bp) ==
    IF bp = 0 THEN s
    ELSE LET size == GET_SIZE(s.mem, HDRP(bp))
         IN  Bind([s EXCEPT !.mem = PutHdrFtr(s.mem, bp, PACK(size, 0))], LAMBDA s1 :
             coalesce(s1, bp).s)

\* 256^k, for the bytes of a word below and above a byte offset k (little-endian)
Byte(k) == 256^k

\* n bytes from src to dst, ranges that do not overlap: n \div 4 whole words
\* and the n % 4 low bytes of the next one
CopyBytes(m, dst, src, n) ==
    LET nw == n \div WSIZE
        k == n % WSIZE
        d == dst + WSIZE * nw
    IN  Bind({b \in DOMAIN m : src <= b /\ b < src + WSIZE * nw}, LAMBDA from :
        Bind({b \in DOMAIN m : ~(dst <= b /\ b < dst + WSIZE * nw)}, LAMBDA keep :
        Bind([a \in keep \cup {b - src + dst : b \in from} |->
                 IF dst <= a /\ a < dst + WSIZE * nw THEN m[a - dst + src] ELSE m[a]],
             LAMBDA m1 :
        IF k = 0 THEN m1
        ELSE PUT(m1, d, (GET(m1, d) \div Byte(k)) * Byte(k)
                        + (GET(m, src + WSIZE * nw) % Byte(k))))))

\* memcpy with source and destination exchanged
memcpy_swapped(m, dst, src, n) == CopyBytes(m, src, dst, n)

memcpy(m, dst, src, n) == CopyBytes(m, dst, src, n)

\* memset(ptr, 0, n): a store through NULL, or past the end of the arena, is
\* where the process stops, after the bytes below the end were cleared
memset(s, ptr, n) ==
    LET m == s.mem
        nw == n \div WSIZE
        k == n % WSIZE
        d == ptr + WSIZE * nw
    IN  IF n = 0 THEN s
        ELSE IF ptr = NULL THEN [s EXCEPT !.crash = TRUE]
        ELSE Bind([a \in {b \in DOMAIN m : ~(ptr <= b /\ b < ptr + WSIZE * nw)} |-> m[a]],
                  LAMBDA m1 :
             Bind(IF k = 0 THEN m1 ELSE PUT(m1, d, (GET(m1, d) \div Byte(k)) * Byte(k)),
                  LAMBDA m2 :
             IF ptr + n > s.max THEN [s EXCEPT !.mem = m2, !.crash = TRUE]
             ELSE [s EXCEPT !.mem = m2]))

\* mm_realloc that splits as soon as the rest is not below MINIMUM
mm_realloc_splitmin(s, ptr, size) ==
    LET oldsize == GET_SIZE(s.mem, HDRP(ptr))
        asize == AdjustedSize(size)
        n == IF size < oldsize THEN size ELSE oldsize
    IN  IF size <= 0 THEN [s |-> mm_free(s, ptr), r |-> 0, copied |-> 0]
        ELSE IF ptr = NULL
        THEN Bind(mm_malloc(s, size), LAMBDA a : [s |-> a.s, r |-> a.r, copied |-> 0])
        ELSE IF oldsize = asize THEN [s |-> s, r |-> ptr, copied |-> 0]
        ELSE IF asize < oldsize
        THEN IF oldsize - asize < MINIMUM
             THEN [s |-> s, r |-> ptr, copied |-> 0]
             ELSE Bind(PutHdrFtr(s.mem, ptr, PACK(asize, 1)), LAMBDA m1 :
                  Bind(PUT(m1, HDRP(NEXT_BLKP(m1, ptr)), PACK(oldsize - asize, 1)), LAMBDA m2 :
                  Bind([s EXCEPT !.mem = m2], LAMBDA s1 :
                  [s |-> mm_free(s1, NEXT_BLKP(m2, ptr)), r |-> ptr, copied |-> 0])))
        ELSE Bind(mm_malloc(s, size), LAMBDA a :
             IF a.s.crash THEN [s |-> a.s, r |-> 0, copied |-> 0]
             ELSE IF a.r = NULL THEN [s |-> a.s, r |-> 0, copied |-> 0]
             ELSE Bind([a.s EXCEPT !.mem = memcpy(a.s.mem, a.r, ptr, n)], LAMBDA cp :
                  [s |-> mm_free(cp, ptr), r |-> a.r, copied |-> n]))

\* mm_realloc that gives the old block back before it asks for the new one
mm_realloc_freefirst(s, ptr, size) ==
    LET oldsize == GET_SIZE(s.mem, HDRP(ptr))
        asize == AdjustedSize(size)
        n == IF size < oldsize THEN size ELSE oldsize
    IN  IF size <= 0 THEN [s |-> mm_free(s, ptr), r |-> 0, copied |-> 0]
        ELSE IF ptr = NULL
        THEN Bind(mm_malloc(s, size), LAMBDA a : [s |-> a.s, r |-> a.r, copied |-> 0])
        ELSE IF oldsize = asize THEN [s |-> s, r |-> ptr, copied |-> 0]
        ELSE IF asize < oldsize
        THEN IF oldsize - asize <= MINIMUM
             THEN [s |-> s, r |-> ptr, copied |-> 0]
             ELSE Bind(PutHdrFtr(s.mem, ptr, PACK(asize, 1)), LAMBDA m1 :
                  Bind(PUT(m1, HDRP(NEXT_BLKP(m1, ptr)), PACK(oldsize - asize, 1)), LAMBDA m2 :
                  Bind([s EXCEPT !.mem = m2], LAMBDA s1 :
                  [s |-> mm_free(s1, NEXT_BLKP(m2, ptr)), r |-> ptr, copied |-> 0])))
        ELSE Bind(mm_free(s, ptr), LAMBDA s1 :
             Bind(mm_malloc(s1, size), LAMBDA a :
             IF a.s.crash THEN [s |-> a.s, r |-> 0, copied |-> 0]
             ELSE IF a.r = NULL THEN [s |-> a.s, r |-> 0, copied |-> 0]
             ELSE [s |-> [a.s EXCEPT !.mem = memcpy(a.s.mem, a.r, ptr, n)],
                   r |-> a.r, copied |-> n]))

\* the result also carries the number of bytes the call copied
mm_realloc(s, ptr, size) ==
    LET oldsize == GET_SIZE(s.mem, HDRP(ptr))
        asize == AdjustedSize(size)
        n == IF size < oldsize THEN size ELSE oldsize
    IN  IF size <= 0 THEN [s |-> mm_free(s, ptr), r |-> 0, copied |-> 0]
        ELSE IF ptr = NULL
        THEN Bind(mm_malloc(s, size), LAMBDA a : [s |-> a.s, r |-> a.r, copied |-> 0])
        ELSE IF oldsize = asize THEN [s |-> s, r |-> ptr, copied |-> 0]
        ELSE IF asize < oldsize
        THEN IF oldsize - asize <= MINIMUM
             THEN [s |-> s, r |-> ptr, copied |-> 0]
             ELSE Bind(PutHdrFtr(s.mem, ptr, PACK(asize, 1)), LAMBDA m1 :
                  Bind(PUT(m1, HDRP(NEXT_BLKP(m1, ptr)), PACK(oldsize - asize, 1)), LAMBDA m2 :
                  Bind([s EXCEPT !.mem = m2], LAMBDA s1 :
                  [s |-> mm_free(s1, NEXT_BLKP(m2, ptr)), r |-> ptr, copied |-> 0])))
        ELSE Bind(mm_malloc(s, size), LAMBDA a :
             IF a.s.crash THEN [s |-> a.s, r |-> 0, copied |-> 0]
             ELSE IF a.r = NULL THEN [s |-> a.s, r |-> 0, copied |-> 0]
             ELSE Bind([a.s EXCEPT !.mem = memcpy(a.s.mem, a.r, ptr, n)], LAMBDA cp :
                  [s |-> mm_free(cp, ptr), r |-> a.r, copied |-> n]))

\* mem_sbrk reports failure as (void *)-1, which the test against NULL lets
\* through: the first store then goes through heap_listp = -1
mm_init(s) ==
    Bind(mem_sbrk(s, 2 * MINIMUM), LAMBDA sb :
    LET hl == sb.r
    IN  IF hl = NULL THEN [s |-> [sb.s EXCEPT !.heap_listp = hl], r |-> 0 - 1]
        ELSE IF hl = SBRK_FAIL
        THEN [s |-> [sb.s EXCEPT !.heap_listp = hl, !.crash = TRUE], r |-> 0 - 1]
        ELSE Bind(PUT(sb.s.mem, hl, 0), LAMBDA m1 :
             Bind(PUT(m1, hl + WSIZE, PACK(MINIMUM, 1)), LAMBDA m2 :
             Bind(PUT(m2, hl + DSIZE, 0), LAMBDA m3 :
             Bind(PUT(m3, hl + DSIZE + WSIZE, 0), LAMBDA m4 :
             Bind(PUT(m4, hl + MINIMUM, PACK(MINIMUM, 1)), LAMBDA m5 :
             Bind(PUT(m5, hl + MINIMUM + WSIZE, PACK(0, 1)), LAMBDA m6 :
             Bind([sb.s EXCEPT !.mem = m6, !.heap_listp = hl, !.free_listp = hl + DSIZE],
                  LAMBDA s1 :
             Bind(extend_heap(s1, CHUNKSIZE \div WSIZE), LAMBDA e :
             IF e.r = NULL THEN [s |-> e.s, r |-> 0 - 1]
             ELSE [s |-> e.s, r |-> 0])))))))))

mm_calloc(s, nmemb, size) ==
    Bind(IF s.heap_listp = 0 THEN mm_init(s).s ELSE s, LAMBDA s0 :
    IF s0.crash THEN [s |-> s0, r |-> NULL]
    ELSE Bind(mm_malloc(s0, Wrap(nmemb * size)), LAMBDA a :
         IF a.s.crash THEN a
         ELSE [s |-> memset(a.s, a.r, Wrap(nmemb * size)), r |-> a.r]))

\* the lines checkblock prints for the block at bp
checkblock(m, bp) ==
    (IF bp % 8 # 0 THEN <<"Error: not doubleword aligned">> ELSE <<>>)
    \o (IF GET(m, HDRP(bp)) # GET(m, FTRP(m, bp))
        THEN <<"Error: header does not match footer">> ELSE <<>>)

\* the for loop of mm_checkheap: the lines it prints and the bp it ends on
RECURSIVE checkheap_loop(_, _)
checkheap_loop(m, bp) ==
    IF GET_SIZE(m, HDRP(bp)) = 0 THEN [bp |-> bp, out |-> <<>>]
    ELSE Bind(NEXT_BLKP(m, bp), LAMBDA nx :
         Bind(checkheap_loop(m, nx), LAMBDA r :
         [bp |-> r.bp, out |-> checkblock(m, bp) \o r.out]))

\* mm_checkheap starts at heap_listp, the first byte of the arena, so that
\* HDRP(heap_listp) and, for a header of size 0, FTRP(heap_listp) are the
\* two words below the arena: reads outside the heap, which give whatever
\* is there, v and w.  The result is the lines printed; no store is made.
mm_checkheap(s, verbose, v, w) ==
    Bind(PUT(s.mem, s.heap_listp - DSIZE, w), LAMBDA m0 :
    Bind(PUT(m0, HDRP(s.heap_listp), v), LAMBDA m :
    Bind(checkheap_loop(m, s.heap_listp), LAMBDA r :
        (IF verbose THEN <<"Heap">> ELSE <<>>)
        \o (IF GET_SIZE(m, HDRP(s.heap_listp)) # DSIZE
               \/ GET_ALLOC(m, HDRP(s.heap_listp)) = 0
            THEN <<"Bad prologue header">> ELSE <<>>)
        \o checkblock(m, s.heap_listp)
        \o r.out
        \o (IF GET_SIZE(m, HDRP(r.bp)) # 0 \/ GET_ALLOC(m, HDRP(r.bp)) = 0
            THEN <<"Bad epilogue header">> ELSE <<>>))))

(***************************************************************************)
(* Views of the heap                                                       *)
(***************************************************************************)

\* the block the first heap extension of mm_init frames
FirstBlock(hl) == hl + 2 * MINIMUM

\* the prologue's block pointer
Prologue(hl) == hl + DSIZE

\* the blocks in address order, from bp up to the first header of size 0
RECURSIVE BlockWalk(_, _, _)
BlockWalk(m, bp, lim) ==
    IF bp > lim \/ GET_SIZE(m, HDRP(bp)) = 0 THEN <<>>
    ELSE Bind(NEXT_BLKP(m, bp), LAMBDA nx : <<bp>> \o BlockWalk(m, nx, lim))

\* the free list in list order, from bp up to the first allocated header
RECURSIVE ListWalk(_, _, _)
ListWalk(m, bp, seen) ==
    IF GET_ALLOC(m, HDRP(bp)) # 0 \/ bp \in seen THEN <<>>
    ELSE Bind(SUCC(m, bp), LAMBDA nx :
         Bind(seen \cup {bp}, LAMBDA sn : <<bp>> \o ListWalk(m, nx, sn)))

Range(f) == {f[i] : i \in DOMAIN f}

Blocks == BlockWalk(mem, FirstBlock(heap_listp), mem_brk)
FreeList == ListWalk(mem, free_listp, {})

\* size and allocated bit of every block, in address order
Layout(m, hl, lim) ==
    Bind(BlockWalk(m, FirstBlock(hl), lim), LAMBDA b :
    [i \in DOMAIN b |-> <<b[i], GET_SIZE(m, HDRP(b[i])), GET_ALLOC(m, HDRP(b[i]))>>])

\* bytes of payload of the block at bp
PayloadSize(m, bp) == GET_SIZE(m, HDRP(bp)) - DSIZE

(***************************************************************************)
(* The operations                                                          *)
(***************************************************************************)

\* request sizes: 90 fits block A with 8 bytes to spare and 80 with MINIMUM
\* bytes to spare; the last one is within ALIGNMENT of the largest size_t
Sizes == {0, 1, 80, 90, CHUNKSIZE - DSIZE, CHUNKSIZE, SizeMod - 1}

\* (nmemb, size) of mm_calloc; the last product does not fit a size_t
CallocArgs == {<<1, 16>>, <<1, SizeMod - 1>>, <<2^26 + 1, 16>>}

\* what the caller stores in a payload: a word that tells its offset, at the
\* first word, at the third and at the last
UserData(off) == 171 + off
UserOffsets(m, p) == {0, DSIZE, PayloadSize(m, p) - WSIZE}

RECURSIVE Fill(_, _, _)
Fill(m, p, offs) ==
    IF offs = {} THEN m
    ELSE Bind(CHOOSE o \in offs : TRUE, LAMBDA off :
         Bind(PUT(m, p + off, UserData(off)), LAMBDA m1 :
         Bind(offs \ {off}, LAMBDA rest : Fill(m1, p, rest))))

\* the caller's warm-up: four allocations A, B, C, D in address order, then
\* calls on them
Call(name, ptr, size) == [op |-> name, ptr |-> ptr, size |-> size]
BlkA == FirstBlock(HeapBase)
BlkB == BlkA + AdjustedSize(100)
BlkC == BlkB + AdjustedSize(1)
BlkD == BlkC + AdjustedSize(1)
Warm == <<Call("malloc", 0, 100), Call("malloc", 0, 1), Call("malloc", 0, 1),
          Call("malloc", 0, 1)>>
WarmList == Warm \o <<Call("free", BlkA, 0), Call("free", BlkC, 0)>>
WarmData == Warm \o <<Call("write", BlkB, 0), Call("write", BlkD, 0), Call("free", BlkA, 0)>>
\* one allocation that takes the whole first chunk: the free list is empty
WarmFull == <<Call("malloc", 0, CHUNKSIZE - DSIZE)>>

\* limits of the heap provider, as bytes above HeapBase: too small for the
\* prologue, too small for the first chunk, one chunk, one extension more
CapNone == 2 * MINIMUM - DSIZE
CapPrologue == 2 * MINIMUM + CHUNKSIZE - DSIZE
CapChunk == 2 * MINIMUM + CHUNKSIZE

Configs == {<<CapNone, <<>> >>, <<CapPrologue, <<>> >>, <<CapChunk, <<>> >>,
            <<MaxHeap, <<>> >>, <<CapChunk, Warm>>, <<MaxHeap, Warm>>,
            <<MaxHeap, WarmList>>, <<MaxHeap, WarmData>>, <<MaxHeap, WarmFull>>}

Cur == [mem |-> mem, heap_listp |-> heap_listp, free_listp |-> free_listp,
        brk |-> mem_brk, max |-> mem_max_addr, crash |-> FALSE]

Commit(s) ==
    /\ mem' = s.mem
    /\ heap_listp' = s.heap_listp
    /\ free_listp' = s.free_listp
    /\ mem_brk' = s.brk
    /\ UNCHANGED mem_max_addr

\* what mm_malloc found before it ran: the blocks, the members of the free
\* list and the break
NoLayout == [on |-> FALSE, blocks |-> <<>>, free |-> {}, brk |-> 0]
Snapshot == [on |-> TRUE, blocks |-> Layout(mem, heap_listp, mem_brk),
             free |-> Range(FreeList), brk |-> mem_brk]

Op(name, ptr, size, ret, copied) ==
    [op |-> name, ptr |-> ptr, size |-> size, ret |-> ret, copied |-> copied]

\* the inputs of a call: the next warm-up call, or anything once it is over
Warming == script # <<>>
Inputs(name, any, warm) ==
    IF ~Warming THEN any
    ELSE IF Head(script).op = name THEN {warm} ELSE {}

Step ==
    /\ Warming \/ nops < MaxOps
    /\ script' = IF Warming THEN Tail(script) ELSE script
    /\ nops' = IF Warming THEN nops ELSE nops + 1

Init ==
    /\ mem = [a \in {} |-> 0]
    /\ heap_listp = 0
    /\ free_listp = 0
    /\ mem_brk = HeapBase
    /\ \E cfg \in Configs :
         /\ mem_max_addr = HeapBase + cfg[1]
         /\ script = cfg[2]
    /\ pc = "uninit"
    /\ live = {}
    /\ last = Op("none", 0, 0, 0, 0)
    /\ pre = NoLayout
    /\ nops = 0

MmInit ==
    /\ pc = "uninit"
    /\ \E i \in {mm_init(s) : s \in {Cur}} :
           /\ Commit(i.s)
           /\ pc' = IF i.s.crash THEN "crashed" ELSE IF i.r = 0 THEN "ready" ELSE "failed"
           /\ last' = Op("init", 0, 0, i.r, 0)
    /\ UNCHANGED <<live, pre, script, nops>>

Malloc ==
    /\ pc = "ready"
    /\ Step
    /\ \E size \in Inputs("malloc", Sizes, Head(script).size) :
         \E a \in {mm_malloc(s, size) : s \in {Cur}} :
             /\ Commit(a.s)
             /\ pc' = IF a.s.crash THEN "crashed" ELSE "ready"
             /\ live' = IF a.r # NULL THEN live \cup {a.r} ELSE live
             /\ last' = Op("malloc", 0, size, a.r, 0)
             /\ pre' = IF a.r # NULL /\ ~a.s.crash THEN Snapshot ELSE NoLayout

Free ==
    /\ pc = "ready"
    /\ Step
    /\ \E bp \in Inputs("free", live \cup {NULL}, Head(script).ptr) :
         \E f \in {mm_free(s, bp) : s \in {Cur}} :
             /\ Commit(f)
             /\ pc' = IF f.crash THEN "crashed" ELSE "ready"
             /\ live' = live \ {bp}
             /\ last' = Op("free", bp, 0, 0, 0)
             /\ pre' = IF last.op = "malloc" /\ bp = last.ret /\ bp # NULL
                        THEN pre ELSE NoLayout

Realloc ==
    /\ pc = "ready"
    /\ Step
    /\ \E in \in Inputs("realloc", ((live \cup {NULL}) \X Sizes), <<0, 0>>) :
         \E r \in {mm_realloc(s, in[1], in[2]) : s \in {Cur}} :
             /\ Commit(r.s)
             /\ pc' = IF r.s.crash THEN "crashed" ELSE "ready"
             /\ live' = IF in[2] = 0 THEN live \ {in[1]}
                        ELSE IF r.r = NULL THEN live
                        ELSE (live \ {in[1]}) \cup {r.r}
             /\ last' = Op("realloc", in[1], in[2], r.r, r.copied)
    /\ pre' = NoLayout

Calloc ==
    /\ pc \in {"uninit", "ready"}
    /\ Step
    /\ \E args \in Inputs("calloc", CallocArgs, <<0, 0>>) :
         \E c \in {mm_calloc(s, args[1], args[2]) : s \in {Cur}} :
             /\ Commit(c.s)
             /\ pc' = IF c.s.crash THEN "crashed" ELSE "ready"
             /\ live' = IF c.r # NULL THEN live \cup {c.r} ELSE live
             /\ last' = Op("calloc", 0, Wrap(args[1] * args[2]), c.r, 0)
    /\ pre' = NoLayout

\* the caller stores into a payload it owns
Write ==
    /\ pc = "ready"
    /\ Step
    /\ \E p \in Inputs("write", live, Head(script).ptr) :
           /\ mem' = Fill(mem, p, UserOffsets(mem, p))
           /\ mem' # mem
           /\ last' = Op("write", p, 0, 0, 0)
    /\ pre' = NoLayout
    /\ UNCHANGED <<heap_listp, free_listp, mem_brk, mem_max_addr, pc, live>>

\* what the words below the arena may hold: nothing, or a header of the
\* size mm_checkheap looks for, or one of the size of the prologue
BelowWords == {0, PACK(DSIZE, 1), PACK(MINIMUM, 1)}

\* the lines of a run of mm_checkheap that report a failure
Diagnostics(out) == SelectSeq(out, LAMBDA line : line # "Heap")

\* the caller runs the consistency checker; last.ret is the number of
\* failures it reported
CheckHeap ==
    /\ pc = "ready"
    /\ Step
    /\ \E verbose \in Inputs("check", BOOLEAN, FALSE), v \in BelowWords, w \in BelowWords :
         \E out \in {mm_checkheap(s, verbose, v, w) : s \in {Cur}} :
             last' = Op("check", 0, 0, Len(Diagnostics(out)), 0)
    /\ pre' = NoLayout
    /\ UNCHANGED <<mem, heap_listp, free_listp, mem_brk, mem_max_addr, pc, live>>

Next == MmInit \/ Malloc \/ Free \/ Realloc \/ Calloc \/ Write \/ CheckHeap

Spec == Init /\ [][Next]_vars


(***************************************************************************)
(* Properties                                                              *)
(***************************************************************************)

\* an operation has returned and the allocator can be called again
Returned == pc \in {"ready", "failed"}

BlockSize(bp) == GET_SIZE(mem, HDRP(bp))
IsFree(bp) == GET_ALLOC(mem, HDRP(bp)) = 0
FreeBlocks == {b \in Range(Blocks) : IsFree(b)}

\* where the walk of the free list stops
RECURSIVE ListEnd(_, _, _)
ListEnd(m, bp, seen) ==
    IF GET_ALLOC(m, HDRP(bp)) # 0 \/ bp \in seen THEN bp
    ELSE ListEnd(m, SUCC(m, bp), seen \cup {bp})

\* every live pointer is an allocated block of the heap, and no two of
\* these blocks overlap
LiveDisjoint ==
    Returned =>
        /\ \A p \in live : p \in Range(Blocks) /\ ~IsFree(p)
        /\ \A p, q \in live :
              p # q => (p + BlockSize(p) <= q \/ q + BlockSize(q) <= p)
\* a pointer just returned was not live, unless it is the one resized
FreshPointer ==
    (pc' = "ready" /\ last'.op \in {"malloc", "calloc", "realloc"} /\ last'.ret # NULL)
        => last'.ret \notin (live \ {last'.ptr})

\* C1: the blocks of any two live allocations are disjoint, every live
\* pointer is an allocated block of the heap, and a pointer that allocate,
\* resize or zero_allocate returns is not one that is still live.
C1_LiveBlocksDisjoint == [](LiveDisjoint) /\ [][FreshPointer]_vars

\* C1 witness: a resize has moved a block while two other allocations are live
C1_Witness ==
    /\ pc = "ready" /\ ~Warming
    /\ last.op = "realloc" /\ last.ret # NULL /\ last.ret # last.ptr /\ last.ptr # NULL
    /\ Cardinality(live) >= 3

\* C2: no two physically adjacent blocks are both free once an operation
\* has returned.
C2_NoAdjacentFree ==
    Returned =>
        \A i \in 1..(Len(Blocks) - 1) : ~(IsFree(Blocks[i]) /\ IsFree(Blocks[i + 1]))

\* C2 witness: free of a block between two free neighbours left one free
\* block spanning the three
C2_Witness ==
    /\ pc = "ready" /\ nops = 1 /\ last.op = "free" /\ last.ptr = BlkB
    /\ BlkA \in FreeBlocks /\ BlockSize(BlkA) = BlkD - BlkA

\* C3: the blocks reached from free_listp by successor links, up to the
\* prologue, are the blocks of the heap whose header is not allocated,
\* each once.
C3_FreeListIsFreeBlocks ==
    Returned =>
        /\ Range(FreeList) = FreeBlocks
        /\ ListEnd(mem, free_listp, {}) = Prologue(heap_listp)

\* C3 witness: an allocation split a free block while three blocks were free
C3_Witness ==
    /\ pc = "ready" /\ ~Warming /\ last.op = "malloc" /\ last.ret # NULL
    /\ Len(FreeList) >= 3
    /\ last.ret + BlockSize(last.ret) \in FreeBlocks

\* C4: every block but the epilogue, the prologue included, has a footer
\* equal to its header.
C4_TagConsistency ==
    Returned =>
        \A b \in Range(Blocks) \cup {Prologue(heap_listp)} :
            GET(mem, HDRP(b)) = GET(mem, FTRP(mem, b))

\* C4 witness: resize has shrunk block A in place and freed its tail
C4_Witness ==
    /\ pc = "ready" /\ nops = 1
    /\ last.op = "realloc" /\ last.ptr = BlkA /\ last.ret = BlkA /\ last.size = 1
    /\ BlockSize(BlkA) = MINIMUM /\ (BlkA + MINIMUM) \in FreeBlocks

\* C5: the head of the free list has no predecessor, and the successor of
\* every node, unless it is the prologue, names that node as predecessor.
C5_ListConsistency ==
    Returned =>
        /\ PRED(mem, free_listp) = NULL
        /\ \A x \in Range(FreeList) :
              SUCC(mem, x) # Prologue(heap_listp) => PRED(mem, SUCC(mem, x)) = x

\* C5 witness: the middle node of a list of three was removed
C5_Witness ==
    /\ pc = "ready" /\ nops = 1 /\ last.op = "malloc" /\ last.ret = BlkA
    /\ free_listp = BlkC /\ Len(FreeList) = 2 /\ BlkA \in live


\* C6: the block allocate returns has room for the request, whatever the
\* request size.
C6_Capacity ==
    (pc = "ready" /\ last.op = "malloc" /\ last.ret # NULL)
        => PayloadSize(mem, last.ret) >= last.size

\* C7: every pointer handed out is a multiple of 8.
C7_Alignment ==
    /\ \A p \in live : p % ALIGNMENT = 0
    /\ last.op \in {"malloc", "calloc", "realloc"} => last.ret % ALIGNMENT = 0

\* C7 witness: allocate returned a block that a heap extension had just
\* merged with the free block before it
C7_Witness ==
    /\ pc = "ready" /\ ~Warming /\ last.op = "malloc" /\ last.ret # NULL
    /\ pre.on /\ mem_brk > pre.brk /\ last.ret < pre.brk
    /\ Cardinality(live) >= 2

\* the words of the payload of p that hold something before or after a step
PayloadWords(p) ==
    {a \in DOMAIN mem \cup DOMAIN mem' : p <= a /\ a < p + PayloadSize(mem, p)}

\* a step of the allocator leaves the payload of every block that stays
\* live as it was, but for the block named in the call and the one returned
WriteIsolation ==
    last'.op \in {"malloc", "free", "realloc", "calloc"} =>
        \A p \in live \cap live' :
            (p # last'.ptr /\ p # last'.ret) =>
                \A a \in PayloadWords(p) : GET(mem', a) = GET(mem, a)

\* C8: an allocator operation leaves the payload of every live block alone,
\* but for the block it was called on and the block it returns.
C8_WriteIsolation == [][WriteIsolation]_vars

\* resize has returned a new block for a request larger than the old payload:
\* word for word, the new payload starts with the old one
GrowPreserves ==
    (/\ pc' = "ready" /\ last'.op = "realloc"
     /\ last'.ptr # NULL /\ last'.ret # NULL /\ last'.ret # last'.ptr
     /\ last'.size > PayloadSize(mem, last'.ptr)) =>
        \A i \in 0..(PayloadSize(mem, last'.ptr) \div WSIZE - 1) :
            GET(mem', last'.ret + WSIZE * i) = GET(mem, last'.ptr + WSIZE * i)

\* C9: when resize moves a block to a larger one, found by first fit or by
\* heap extension, the new payload starts with the old payload.
C9_GrowPreserves == [][GrowPreserves]_vars

\* C9 witness: resize moved block B, which held the caller's words, to a
\* block made by extending the heap
C9_Witness ==
    /\ pc = "ready" /\ nops = 1 /\ last.op = "realloc" /\ last.ptr = BlkB
    /\ last.ret # NULL /\ last.ret # BlkB
    /\ mem_brk > HeapBase + CapChunk
    /\ GET(mem, last.ret) = UserData(0)

\* free(allocate(s)) has just returned
PairDone == pc = "ready" /\ last.op = "free" /\ pre.on
LayoutNow == Layout(mem, heap_listp, mem_brk)
SameLayout == LayoutNow = pre.blocks /\ Range(FreeList) = pre.free

\* the block layout differs from the one before the pair only in that the
\* free block of highest address is larger
LastFreeLarger ==
    /\ Len(LayoutNow) = Len(pre.blocks)
    /\ \E k \in DOMAIN pre.blocks :
          /\ pre.blocks[k][3] = 0
          /\ \A j \in DOMAIN pre.blocks : j > k => pre.blocks[j][3] = 1
          /\ LayoutNow[k][1] = pre.blocks[k][1]
          /\ LayoutNow[k][2] > pre.blocks[k][2]
          /\ LayoutNow[k][3] = 0
          /\ \A j \in DOMAIN pre.blocks : j # k => LayoutNow[j] = pre.blocks[j]

\* C10 as stated: free(allocate(s)) gives back the layout and the free-list
\* members it found, or, after a heap extension, that layout with the last
\* free block larger.
C10_FreeAfterAlloc ==
    PairDone => IF mem_brk = pre.brk THEN SameLayout ELSE LastFreeLarger

\* the layout after an extension: the block at the end of the heap, if
\* free, has grown by the extension; if allocated, a new free block of the
\* size of the extension follows it
TailGrown ==
    LET n == Len(pre.blocks)
        ext == mem_brk - pre.brk
    IN  IF n > 0 /\ pre.blocks[n][3] = 0
        THEN /\ Len(LayoutNow) = n
             /\ \A j \in 1..(n - 1) : LayoutNow[j] = pre.blocks[j]
             /\ LayoutNow[n] = <<pre.blocks[n][1], pre.blocks[n][2] + ext, 0>>
             /\ Range(FreeList) = pre.free
        ELSE /\ Len(LayoutNow) = n + 1
             /\ \A j \in 1..n : LayoutNow[j] = pre.blocks[j]
             /\ LayoutNow[n + 1] = <<pre.brk, ext, 0>>
             /\ Range(FreeList) = pre.free \cup {pre.brk}

\* C10 amended: as C10, but after a heap extension the block at the end of
\* the heap is larger if it was free, and a new free block follows it if it
\* was allocated.
C10_FreeAfterAllocAmended ==
    PairDone => IF mem_brk = pre.brk THEN SameLayout ELSE TailGrown

\* C10 witness: the pair ran on a heap that ended in an allocated block
\* and had to be extended
C10_Witness ==
    /\ PairDone /\ mem_brk > pre.brk
    /\ pre.blocks[Len(pre.blocks)][3] = 1

\* the step is a call of the named operation
Called(name) == last'.op = name /\ (nops' # nops \/ script' # script)

\* the allocator's own state: the arena, the break and the two globals
SameState ==
    /\ mem' = mem
    /\ mem_brk' = mem_brk
    /\ heap_listp' = heap_listp
    /\ free_listp' = free_listp

\* the call is resize(p, s) for a live p and s > 0 whose adjusted size is
\* at most the block size of p and at most MINIMUM below it
ResizeInPlace ==
    /\ pc = "ready" /\ Called("realloc")
    /\ last'.ptr \in live /\ last'.size > 0
    /\ AdjustedSize(last'.size) <= BlockSize(last'.ptr)
    /\ BlockSize(last'.ptr) - AdjustedSize(last'.size) <= MINIMUM

\* C11: resize(p, s) with adjusted size a <= c and c - a <= MINIMUM, c the
\* block size of p, returns p and leaves every word of the heap, the break
\* and the free-list head as they were.
C11_ResizeIdentity ==
    [][ResizeInPlace => (pc' = "ready" /\ last'.ret = last'.ptr /\ SameState)]_vars

\* C11 witness: resize has returned its argument for a request whose adjusted
\* size is exactly MINIMUM below the block size
C11_Witness ==
    /\ pc = "ready" /\ last.op = "realloc" /\ last.ptr # NULL
    /\ last.ret = last.ptr /\ last.size > 0
    /\ BlockSize(last.ptr) - AdjustedSize(last.size) = MINIMUM

\* no block of the free list fits a request of n bytes and the heap
\* provider has no room for the extension mm_malloc would ask for
Exhausted(n) ==
    /\ n > 0
    /\ find_fit(Cur, AdjustedSize(n)) = NULL
    /\ mem_brk + MAX(AdjustedSize(n), CHUNKSIZE) > mem_max_addr

\* C12: when no free block fits and the heap provider refuses, allocate
\* returns none and leaves the arena, the break and the free-list head as
\* they were, and the live allocations with them.
C12_FailedAllocate ==
    [][(pc = "ready" /\ Called("malloc") /\ Exhausted(last'.size))
        => (pc' = "ready" /\ last'.ret = NULL /\ SameState /\ live' = live)]_vars

\* C12 witness: allocate has returned none for a positive size, with live
\* allocations in the heap
C12_Witness ==
    /\ pc = "ready" /\ last.op = "malloc" /\ last.size > 0 /\ last.ret = NULL
    /\ live # {}

\* C13: when no free block fits and the heap provider refuses,
\* zero_allocate of a positive number of bytes returns none and writes
\* nothing, as allocate does.
C13_FailedZeroAllocate ==
    [][(pc = "ready" /\ Called("calloc") /\ Exhausted(last'.size))
        => (pc' = "ready" /\ last'.ret = NULL /\ SameState /\ live' = live)]_vars

\* the heap provider has no room for the first, or for the second, of the
\* two requests of mm_init
FirstRequestFails == HeapBase + 2 * MINIMUM > mem_max_addr
SecondRequestFails ==
    ~FirstRequestFails /\ HeapBase + 2 * MINIMUM + CHUNKSIZE > mem_max_addr

\* C14: init returns failure if and only if one of its two requests to the
\* heap provider fails, and when the first one fails it returns failure
\* without writing to memory.
C14_InitFailure ==
    last.op = "init" =>
        /\ Returned
        /\ (last.ret # 0) <=> (FirstRequestFails \/ SecondRequestFails)
        /\ FirstRequestFails => (DOMAIN mem = {} /\ mem_brk = HeapBase)

\* free(p) has just returned for a p that is not NULL
JustFreed == pc = "ready" /\ last.op = "free" /\ last.ptr # NULL

\* the head of the free list is a free block that holds the address p
HeadHolds(p) ==
    /\ IsFree(free_listp)
    /\ free_listp <= p /\ p < free_listp + BlockSize(free_listp) - DSIZE

\* allocate right after free(p): a request that fits the head gets the head
ReuseHead ==
    (JustFreed /\ Called("malloc") /\ last'.size > 0
       /\ AdjustedSize(last'.size) <= BlockSize(free_listp))
        => (pc' = "ready" /\ last'.ret = free_listp)

\* free(p) of a block with no free physical neighbour: the block, at its
\* size, becomes the head of the free list
FreeAlone ==
    (pc = "ready" /\ Called("free") /\ last'.ptr # NULL
       /\ \A f \in FreeBlocks : f + BlockSize(f) # last'.ptr
                                /\ last'.ptr + BlockSize(last'.ptr) # f)
        => /\ free_listp' = last'.ptr
           /\ GET_SIZE(mem', HDRP(last'.ptr)) = BlockSize(last'.ptr)

\* C15: after free(p) the free block that holds p is the head of the free
\* list, an allocate that follows at once and fits that block returns it,
\* and a p freed with no free neighbour is itself that block, at its own
\* size.
C15_LifoReuse ==
    /\ [](JustFreed => HeadHolds(last.ptr))
    /\ [][ReuseHead]_vars
    /\ [][FreeAlone]_vars

\* C15 witness: blocks A and C were freed, C last and between two allocated
\* blocks, and the allocate that followed, of C's size, has returned C and
\* not the larger A before it
C15_Witness ==
    /\ pc = "ready" /\ nops = 1
    /\ last.op = "malloc" /\ last.size = 1 /\ last.ret = BlkC
    /\ IsFree(BlkA) /\ ~IsFree(BlkB) /\ ~IsFree(BlkD)

\* the header on which a walk by header sizes from bp first meets size 0
RECURSIVE WalkEnd(_, _, _)
WalkEnd(m, bp, lim) ==
    IF bp > lim \/ GET_SIZE(m, HDRP(bp)) = 0 THEN HDRP(bp)
    ELSE Bind(NEXT_BLKP(m, bp), LAMBDA nx : WalkEnd(m, nx, lim))

\* the regular blocks: the blocks on the free list and the blocks handed out
RegularBlocks == Range(FreeList) \cup live

\* C16: the blocks tile the heap: the walk by header sizes from the prologue
\* visits every regular block and first meets a (0, allocated) word at the
\* last word of the heap, and the tag just below the header of the first
\* regular block, which the coalescer reads as its predecessor's footer, is
\* the footer of the prologue.
C16_Tiling ==
    pc = "ready" =>
        /\ RegularBlocks \subseteq
               Range(BlockWalk(mem, Prologue(heap_listp), mem_brk))
        /\ WalkEnd(mem, Prologue(heap_listp), mem_brk) = mem_brk - WSIZE
        /\ GET(mem, mem_brk - WSIZE) = PACK(0, 1)
        /\ \A b \in RegularBlocks :
               (\A c \in RegularBlocks : b <= c)
                   => HDRP(b) - WSIZE = FTRP(mem, Prologue(heap_listp))

\* C17: the fit finder terminates: the successor chain from the free-list
\* head comes back to no block, passes only through free blocks of the heap
\* and ends at the prologue, which is the head itself when no block is free;
\* so find_fit ends, for every request, on a block of the list or on none.
C17_FitTerminates ==
    Returned =>
        /\ ListEnd(mem, free_listp, {}) = Prologue(heap_listp)
        /\ GET_ALLOC(mem, HDRP(Prologue(heap_listp))) = 1
        /\ \A b \in Range(FreeList) : b \in Range(Blocks)
        /\ FreeBlocks = {} => free_listp = Prologue(heap_listp)
        /\ \A size \in Sizes \ {0} :
               find_fit(Cur, AdjustedSize(size)) \in Range(FreeList) \cup {NULL}

\* C17 witness: three blocks are on the free list and the walk for a
\* request that none of them fits has passed them all and stopped at the
\* prologue
C17_Witness ==
    /\ pc = "ready" /\ Len(FreeList) >= 3
    /\ find_fit(Cur, AdjustedSize(CHUNKSIZE)) = NULL

\* resize(p, s) on the grow path: the adjusted size is above the block size
\* of p, and the new block was found
GrowPath ==
    /\ pc = "ready" /\ Called("realloc")
    /\ last'.ptr \in live /\ last'.size > 0
    /\ AdjustedSize(last'.size) > BlockSize(last'.ptr)
    /\ pc' = "ready" /\ last'.ret # NULL

\* C18: on the grow path resize copies exactly min(size, c - 8) bytes, c the
\* block size of the old block: it does not read past the old payload.
C18_CopyLength ==
    [][GrowPath =>
         last'.copied = (IF last'.size < BlockSize(last'.ptr) - DSIZE
                         THEN last'.size ELSE BlockSize(last'.ptr) - DSIZE)]_vars

\* resize(p, s) on the grow path, in a heap where the allocation it makes
\* fails
GrowFails ==
    /\ pc = "ready" /\ Called("realloc")
    /\ last'.ptr \in live /\ last'.size > 0
    /\ AdjustedSize(last'.size) > BlockSize(last'.ptr)
    /\ Exhausted(last'.size)

\* C20: when resize takes the grow path and its allocation fails, resize
\* returns none and the block at p is as it was: allocated, of the same
\* size, with the same payload, off the free list and still live.
C20_FailedGrow ==
    [][GrowFails =>
         /\ pc' = "ready" /\ last'.ret = NULL
         /\ SameState
         /\ last'.ptr \in live'
         /\ GET(mem', HDRP(last'.ptr)) = PACK(BlockSize(last'.ptr), 1)
         /\ last'.ptr \notin Range(ListWalk(mem', free_listp', {}))]_vars

\* C20 witness: resize of a live block to a size the heap has no room for
\* has returned none
C20_Witness ==
    /\ pc = "ready" /\ last.op = "realloc" /\ last.ptr \in live
    /\ last.size > PayloadSize(mem, last.ptr) /\ last.ret = NULL

\* C19: on every heap reached by init and contract-honouring operations the
\* consistency checker reports no failure, and a run of it changes nothing
\* of the allocator's state.
C19_CheckSilent ==
    /\ []((pc = "ready" /\ last.op = "check") => last.ret = 0)
    /\ [][Called("check") => SameState]_vars

====
